---- MODULE Spec2Model ----
(***************************************************************************)
(* The credential store bridge of frontend/src-tauri/src/lib.rs: the four  *)
(* tauri commands store_auth_token, get_auth_token, clear_auth_tokens and  *)
(* get_server_info over the operating system's keyring.                    *)
(*                                                                         *)
(* The keyring is a set of credentials (service, account, value).  Every   *)
(* call a command makes into it (Entry::new, set_password, get_password,   *)
(* delete_credential) has an outcome the command does not control: "Ok",   *)
(* or a platform failure.  A command is a small program over a frame       *)
(* [op, token, refresh, pc, entry, result]; one step of it is one keyring  *)
(* call.  Spec runs each command to completion in one action (one UI       *)
(* action, one bridge call); SpecInterleaved lets two callers' keyring     *)
(* calls interleave.                                                       *)
(***************************************************************************)
EXTENDS Naturals, Sequences, FiniteSets, TLC

VARIABLES
    vault,          \* the keyring: a set of [service, account, value]
    build,          \* the build configuration the binary was compiled with
    pre,            \* the keyring as it was when the last command was invoked
    last,           \* the frame of the last completed command (with its result)
    calls,          \* the keyring calls the last completed command made, in order
    prev,           \* the last completed store or clear: its frame and its calls
    stored,         \* some store_auth_token has run
    inflight,       \* SpecInterleaved: each caller's running frame, or Idle
    clearFailed,    \* a keyring call of a clear_auth_tokens failed
    overlapped,     \* two commands were in flight at once
    orphanCauses    \* how a refresh_token without an auth_token came about

vars == <<vault, build, pre, last, calls, prev, stored, inflight, clearFailed, overlapped, orphanCauses>>

----------------------------------------------------------------------------
(* Constants of the program *)

SERVICE_NAME == "alabama-auction-watcher"

DEFAULT_SERVER_URL == "http://localhost:8001"

AUTH_TOKEN == "auth_token"

REFRESH_TOKEN == "refresh_token"

Accounts == {AUTH_TOKEN, REFRESH_TOKEN}

----------------------------------------------------------------------------
(* Bounds of the model *)

\* the number of distinct strings a caller may pass as token or refresh token
MaxStrings == 2

AllStrings == <<"abc123", "rfh456", "tok789", "tokABC", "tokDEF">>

Strings == {AllStrings[i] : i \in 1..MaxStrings}

\* Option<String>: None is the empty sequence, Some(s) the sequence <<s>>
None == <<>>

Some(s) == <<s>>

OptionStrings == {None} \cup {Some(s) : s \in Strings}

\* what a call into the keyring may answer besides its regular answer
VaultOutcomes == {"Ok", "PlatformFailure"}

Callers == {"caller_a", "caller_b"}

\* the build-time inputs of get_server_info: option_env!("TAURI_API_URL"),
\* cfg!(debug_assertions), env!("CARGO_PKG_VERSION")
Builds ==
    [tauri_api_url : {None, Some("https://api.example.com")},
     debug_assertions : BOOLEAN,
     cargo_pkg_version : {"0.1.0"}]

----------------------------------------------------------------------------
(* The keyring (crate keyring), as lib.rs uses it *)

Credential(service, account, value) ==
    [service |-> service, account |-> account, value |-> value]

Matching(v, entry) ==
    {c \in v : c.service = entry.service /\ c.account = entry.account}

\* Entry::new(service, account): a handle, or an error
Entry_new(service, account, outcome) ==
    IF outcome = "Ok"
    THEN [res |-> "Ok", entry |-> Some([service |-> service, account |-> account])]
    ELSE [res |-> outcome, entry |-> None]

\* entry.set_password(value): creates the credential or overwrites it; a
\* refused write leaves the keyring as it was
set_password(v, entry, value, outcome) ==
    IF outcome = "Ok"
    THEN [res |-> "Ok",
          vault |-> (v \ Matching(v, entry))
                    \cup {Credential(entry.service, entry.account, value)}]
    ELSE [res |-> outcome, vault |-> v]

\* entry.get_password(): the value, NoEntry, or an error (the platform's,
\* whether or not a credential exists)
get_password(v, entry, outcome) ==
    LET m == Matching(v, entry) IN
    IF outcome # "Ok" THEN [res |-> outcome, value |-> None]
    ELSE IF m = {} THEN [res |-> "NoEntry", value |-> None]
    ELSE IF Cardinality(m) > 1 THEN [res |-> "Ambiguous", value |-> None]
    ELSE [res |-> "Ok", value |-> Some((CHOOSE c \in m : TRUE).value)]

\* entry.delete_credential(): removes the credential, NoEntry if there is
\* none; a refused delete leaves the keyring as it was
delete_credential(v, entry, outcome) ==
    LET m == Matching(v, entry) IN
    IF outcome # "Ok" THEN [res |-> outcome, vault |-> v]
    ELSE IF m = {} THEN [res |-> "NoEntry", vault |-> v]
    ELSE IF Cardinality(m) > 1 THEN [res |-> "Ambiguous", vault |-> v]
    ELSE [res |-> "Ok", vault |-> v \ m]

\* the credential values held under an account
Held(v, account) ==
    {c.value : c \in {d \in v : d.service = SERVICE_NAME /\ d.account = account}}

----------------------------------------------------------------------------
(* Results *)

\* struct AuthError { code, message }; the message is the format! text and
\* the keyring error it embeds
AuthError(code, text, e) == [code |-> code, message |-> <<text, e>>]

Ok(x) == [ok |-> TRUE, value |-> <<x>>, err |-> <<>>]

Err(e) == [ok |-> FALSE, value |-> <<>>, err |-> <<e>>]

\* struct ServerInfo { server_url, is_development, tauri_version }
ServerInfo(url, dev, version) ==
    [server_url |-> url, is_development |-> dev, tauri_version |-> version]

----------------------------------------------------------------------------
(* Frames: a command in flight *)

Frame(op, token, refresh, pc) ==
    [op |-> op, token |-> token, refresh |-> refresh, pc |-> pc,
     entry |-> None, result |-> <<>>]

Event(call, account, res) == [call |-> call, account |-> account, res |-> res]

Return(f, result) == [f EXCEPT !.pc = "done", !.entry = None, !.result = <<result>>]

Goto(f, pc, entry) == [f EXCEPT !.pc = pc, !.entry = entry]

Moved(f, v, e) == [frame |-> f, vault |-> v, event |-> e]

----------------------------------------------------------------------------
(* The commands, one keyring call per step *)

\* store_auth_token: let entry = Entry::new(SERVICE_NAME, "auth_token").map_err(..)?
store_open_auth(f, v, o) ==
    LET n == Entry_new(SERVICE_NAME, AUTH_TOKEN, o)
        e == Event("Entry::new", AUTH_TOKEN, n.res)
    IN IF n.res = "Ok"
       THEN Moved(Goto(f, "set_auth", n.entry), v, e)
       ELSE Moved(Return(f, Err(AuthError("KEYRING_ERROR",
                                          "Failed to access keyring: ", n.res))), v, e)

\* a slip: a store without a refresh token also drops the refresh token of an
\* earlier store
store_write_auth_dropping_refresh(f, v, o) ==
    LET w == set_password(v, f.entry[1], f.token, o)
        e == Event("set_password", f.entry[1].account, w.res)
        dropped == {c \in w.vault : c.account # REFRESH_TOKEN}
    IN IF w.res # "Ok"
       THEN Moved(Return(f, Err(AuthError("STORE_ERROR",
                                          "Failed to store token: ", w.res))), w.vault, e)
       ELSE IF f.refresh # None
       THEN Moved(Goto(f, "new_refresh", None), w.vault, e)
       ELSE Moved(Return(f, Ok(TRUE)), dropped, e)

\* store_auth_token: entry.set_password(&token).map_err(..)?; then
\* `if let Some(refresh) = refresh_token`, else Ok(true)
store_write_auth(f, v, o) ==
    LET w == set_password(v, f.entry[1], f.token, o)
        e == Event("set_password", f.entry[1].account, w.res)
    IN IF w.res # "Ok"
       THEN Moved(Return(f, Err(AuthError("STORE_ERROR",
                                          "Failed to store token: ", w.res))), w.vault, e)
       ELSE IF f.refresh # None
       THEN Moved(Goto(f, "new_refresh", None), w.vault, e)
       ELSE Moved(Return(f, Ok(TRUE)), w.vault, e)

\* a slip: the refresh token's entry opened on the account "auth_token"
store_open_refresh_on_auth(f, v, o) ==
    LET n == Entry_new(SERVICE_NAME, AUTH_TOKEN, o)
        e == Event("Entry::new", AUTH_TOKEN, n.res)
    IN IF n.res = "Ok"
       THEN Moved(Goto(f, "set_refresh", n.entry), v, e)
       ELSE Moved(Return(f, Err(AuthError("KEYRING_ERROR",
                                          "Failed to access keyring for refresh token: ",
                                          n.res))), v, e)

\* store_auth_token: let refresh_entry = Entry::new(SERVICE_NAME, "refresh_token")
\*                                          .map_err(..)?
store_open_refresh(f, v, o) ==
    LET n == Entry_new(SERVICE_NAME, REFRESH_TOKEN, o)
        e == Event("Entry::new", REFRESH_TOKEN, n.res)
    IN IF n.res = "Ok"
       THEN Moved(Goto(f, "set_refresh", n.entry), v, e)
       ELSE Moved(Return(f, Err(AuthError("KEYRING_ERROR",
                                          "Failed to access keyring for refresh token: ",
                                          n.res))), v, e)

\* a slip: a failed refresh-token write rolls the primary token back
store_write_refresh_rollback(f, v, o) ==
    LET w == set_password(v, f.entry[1], f.refresh[1], o)
        e == Event("set_password", f.entry[1].account, w.res)
        rolled == {c \in w.vault : c.account # AUTH_TOKEN}
    IN IF w.res # "Ok"
       THEN Moved(Return(f, Err(AuthError("STORE_ERROR",
                                          "Failed to store refresh token: ", w.res))),
                  rolled, e)
       ELSE Moved(Return(f, Ok(TRUE)), w.vault, e)

\* store_auth_token: refresh_entry.set_password(&refresh).map_err(..)?; Ok(true)
store_write_refresh(f, v, o) ==
    LET w == set_password(v, f.entry[1], f.refresh[1], o)
        e == Event("set_password", f.entry[1].account, w.res)
    IN IF w.res # "Ok"
       THEN Moved(Return(f, Err(AuthError("STORE_ERROR",
                                          "Failed to store refresh token: ", w.res))),
                  w.vault, e)
       ELSE Moved(Return(f, Ok(TRUE)), w.vault, e)

\* fn store_auth_token(token: String, refresh_token: Option<String>)
\*    -> Result<bool, AuthError>
store_auth_token(f, v, o) ==
    CASE f.pc = "new_auth" -> store_open_auth(f, v, o)
      [] f.pc = "set_auth" -> store_write_auth(f, v, o)
      [] f.pc = "new_refresh" -> store_open_refresh(f, v, o)
      [] f.pc = "set_refresh" -> store_write_refresh(f, v, o)

\* a slip: the fetch opens the account "refresh_token"
get_open_refresh(f, v, o) ==
    LET n == Entry_new(SERVICE_NAME, REFRESH_TOKEN, o)
        e == Event("Entry::new", REFRESH_TOKEN, n.res)
    IN IF n.res = "Ok"
       THEN Moved(Goto(f, "get_auth", n.entry), v, e)
       ELSE Moved(Return(f, Err(AuthError("KEYRING_ERROR",
                                          "Failed to access keyring: ", n.res))), v, e)

\* get_auth_token: let entry = Entry::new(SERVICE_NAME, "auth_token").map_err(..)?
get_open_auth(f, v, o) ==
    LET n == Entry_new(SERVICE_NAME, AUTH_TOKEN, o)
        e == Event("Entry::new", AUTH_TOKEN, n.res)
    IN IF n.res = "Ok"
       THEN Moved(Goto(f, "get_auth", n.entry), v, e)
       ELSE Moved(Return(f, Err(AuthError("KEYRING_ERROR",
                                          "Failed to access keyring: ", n.res))), v, e)

\* a slip: the match without its NoEntry arm
get_read_auth_no_entry_is_error(f, v, o) ==
    LET g == get_password(v, f.entry[1], o)
        e == Event("get_password", f.entry[1].account, g.res)
    IN IF g.res = "Ok"
       THEN Moved(Return(f, Ok(g.value)), v, e)
       ELSE Moved(Return(f, Err(AuthError("RETRIEVE_ERROR",
                                          "Failed to retrieve token: ", g.res))), v, e)

\* a slip: every failure of the fetch reported as KEYRING_ERROR
get_read_auth_keyring_code(f, v, o) ==
    LET g == get_password(v, f.entry[1], o)
        e == Event("get_password", f.entry[1].account, g.res)
    IN IF g.res = "Ok"
       THEN Moved(Return(f, Ok(g.value)), v, e)
       ELSE IF g.res = "NoEntry"
       THEN Moved(Return(f, Ok(None)), v, e)
       ELSE Moved(Return(f, Err(AuthError("KEYRING_ERROR",
                                          "Failed to retrieve token: ", g.res))), v, e)

\* a slip: a fetch that cannot read the credential removes it
get_read_auth_healing(f, v, o) ==
    LET g == get_password(v, f.entry[1], o)
        e == Event("get_password", f.entry[1].account, g.res)
    IN IF g.res = "Ok"
       THEN Moved(Return(f, Ok(g.value)), v, e)
       ELSE IF g.res = "NoEntry"
       THEN Moved(Return(f, Ok(None)), v, e)
       ELSE Moved(Return(f, Err(AuthError("RETRIEVE_ERROR",
                                          "Failed to retrieve token: ", g.res))),
                  v \ Matching(v, f.entry[1]), e)

\* get_auth_token: match entry.get_password() { Ok(password), Err(NoEntry), Err(e) }
get_read_auth(f, v, o) ==
    LET g == get_password(v, f.entry[1], o)
        e == Event("get_password", f.entry[1].account, g.res)
    IN IF g.res = "Ok"
       THEN Moved(Return(f, Ok(g.value)), v, e)
       ELSE IF g.res = "NoEntry"
       THEN Moved(Return(f, Ok(None)), v, e)
       ELSE Moved(Return(f, Err(AuthError("RETRIEVE_ERROR",
                                          "Failed to retrieve token: ", g.res))), v, e)

\* fn get_auth_token() -> Result<Option<String>, AuthError>
get_auth_token(f, v, o) ==
    CASE f.pc = "new_auth" -> get_open_auth(f, v, o)
      [] f.pc = "get_auth" -> get_read_auth(f, v, o)

\* a slip: the first Entry::new of the clear written with `?`
clear_open_auth_propagating(f, v, o) ==
    LET n == Entry_new(SERVICE_NAME, AUTH_TOKEN, o)
        e == Event("Entry::new", AUTH_TOKEN, n.res)
    IN IF n.res = "Ok"
       THEN Moved(Goto(f, "delete_auth", n.entry), v, e)
       ELSE Moved(Return(f, Err(AuthError("KEYRING_ERROR",
                                          "Failed to access keyring: ", n.res))), v, e)

\* clear_auth_tokens: if let Ok(entry) = Entry::new(SERVICE_NAME, "auth_token")
clear_open_auth(f, v, o) ==
    LET n == Entry_new(SERVICE_NAME, AUTH_TOKEN, o)
        e == Event("Entry::new", AUTH_TOKEN, n.res)
    IN IF n.res = "Ok"
       THEN Moved(Goto(f, "delete_auth", n.entry), v, e)
       ELSE Moved(Goto(f, "new_refresh", None), v, e)

\* a slip: the clear deletes nothing under "auth_token"
clear_delete_auth_skipped(f, v, o) ==
    LET d == delete_credential(v, f.entry[1], o)
        e == Event("delete_credential", f.entry[1].account, d.res)
    IN Moved(Goto(f, "new_refresh", None), v, e)

\* a slip: the clear returns once the primary token is deleted
clear_delete_auth_only(f, v, o) ==
    LET d == delete_credential(v, f.entry[1], o)
        e == Event("delete_credential", f.entry[1].account, d.res)
    IN Moved(Return(f, Ok(TRUE)), d.vault, e)

\* clear_auth_tokens: let _ = entry.delete_credential();   (auth_token)
clear_delete_auth(f, v, o) ==
    LET d == delete_credential(v, f.entry[1], o)
        e == Event("delete_credential", f.entry[1].account, d.res)
    IN Moved(Goto(f, "new_refresh", None), d.vault, e)

\* clear_auth_tokens: if let Ok(entry) = Entry::new(SERVICE_NAME, "refresh_token"),
\* else Ok(true)
clear_open_refresh(f, v, o) ==
    LET n == Entry_new(SERVICE_NAME, REFRESH_TOKEN, o)
        e == Event("Entry::new", REFRESH_TOKEN, n.res)
    IN IF n.res = "Ok"
       THEN Moved(Goto(f, "delete_refresh", n.entry), v, e)
       ELSE Moved(Return(f, Ok(TRUE)), v, e)

\* clear_auth_tokens: let _ = entry.delete_credential();   (refresh_token); Ok(true)
clear_delete_refresh(f, v, o) ==
    LET d == delete_credential(v, f.entry[1], o)
        e == Event("delete_credential", f.entry[1].account, d.res)
    IN Moved(Return(f, Ok(TRUE)), d.vault, e)

\* fn clear_auth_tokens() -> Result<bool, AuthError>
clear_auth_tokens(f, v, o) ==
    CASE f.pc = "new_auth" -> clear_open_auth(f, v, o)
      [] f.pc = "delete_auth" -> clear_delete_auth(f, v, o)
      [] f.pc = "new_refresh" -> clear_open_refresh(f, v, o)
      [] f.pc = "delete_refresh" -> clear_delete_refresh(f, v, o)

\* fn get_server_info() -> ServerInfo: no keyring call at all
get_server_info(b) ==
    ServerInfo(IF b.tauri_api_url # None THEN b.tauri_api_url[1]
                                         ELSE DEFAULT_SERVER_URL,
               b.debug_assertions,
               b.cargo_pkg_version)

\* tauri::generate_handler![...]: the command a frame runs
Step(f, v, o) ==
    CASE f.op = "store_auth_token" -> store_auth_token(f, v, o)
      [] f.op = "get_auth_token" -> get_auth_token(f, v, o)
      [] f.op = "clear_auth_tokens" -> clear_auth_tokens(f, v, o)

\* a command run to its return, the i-th keyring call answering oc[i]
RECURSIVE Run(_, _, _, _)
Run(f, v, oc, trace) ==
    IF f.pc = "done"
    THEN [frame |-> f, vault |-> v, calls |-> trace]
    ELSE LET s == Step(f, v, Head(oc))
         IN Run(s.frame, s.vault, Tail(oc), Append(trace, s.event))

\* every way a command of at most n keyring calls can run from keyring v
Runs(f, v, n) == {Run(f, v, oc, <<>>) : oc \in [1..n -> VaultOutcomes]}

Invocations ==
    {Frame("store_auth_token", t, r, "new_auth") : t \in Strings, r \in OptionStrings}
    \cup {Frame("get_auth_token", "", None, "new_auth"),
          Frame("clear_auth_tokens", "", None, "new_auth")}

----------------------------------------------------------------------------
(* State *)

Idle == Frame("idle", "", None, "done")

Quiescent == \A c \in Callers : inflight[c] = Idle

Orphan(v) == Held(v, REFRESH_TOKEN) # {} /\ Held(v, AUTH_TOKEN) = {}

Failure(res) == res \notin {"Ok", "NoEntry"}

Completed(f, trace) == [frame |-> f, calls |-> trace]

Init ==
    /\ vault = {}
    /\ build \in Builds
    /\ pre = {}
    /\ last = Idle
    /\ calls = <<>>
    /\ prev = Completed(Idle, <<>>)
    /\ stored = FALSE
    /\ inflight = [c \in Callers |-> Idle]
    /\ clearFailed = FALSE
    /\ overlapped = FALSE
    /\ orphanCauses = {}

----------------------------------------------------------------------------
(* Spec: one command at a time, each run to completion *)

StoreAuthToken ==
    \E t \in Strings, r \in OptionStrings :
        \E run \in Runs(Frame("store_auth_token", t, r, "new_auth"), vault, 4) :
           /\ pre' = vault
           /\ vault' = run.vault
           /\ last' = run.frame
           /\ calls' = run.calls
           /\ prev' = Completed(run.frame, run.calls)
           /\ stored' = TRUE
           /\ UNCHANGED <<build, inflight, clearFailed, overlapped, orphanCauses>>

GetAuthToken ==
    \E run \in Runs(Frame("get_auth_token", "", None, "new_auth"), vault, 2) :
           /\ pre' = vault
           /\ vault' = run.vault
           /\ last' = run.frame
           /\ calls' = run.calls
           /\ UNCHANGED <<build, prev, stored, inflight, clearFailed, overlapped, orphanCauses>>

ClearAuthTokens ==
    \E run \in Runs(Frame("clear_auth_tokens", "", None, "new_auth"), vault, 4) :
           /\ pre' = vault
           /\ vault' = run.vault
           /\ last' = run.frame
           /\ calls' = run.calls
           /\ prev' = Completed(run.frame, run.calls)
           /\ stored' = stored
           /\ UNCHANGED <<build, inflight, clearFailed, overlapped, orphanCauses>>

GetServerInfo ==
    /\ pre' = vault
    /\ last' = Return(Frame("get_server_info", "", None, "done"),
                      Ok(get_server_info(build)))
    /\ calls' = <<>>
    /\ UNCHANGED <<vault, build, prev, stored, inflight, clearFailed, overlapped, orphanCauses>>

Next == StoreAuthToken \/ GetAuthToken \/ ClearAuthTokens \/ GetServerInfo

Spec == Init /\ [][Next]_vars

----------------------------------------------------------------------------
(* SpecInterleaved: two callers, one keyring call per step.  The component  *)
(* adds no coordination of its own: each keyring call is atomic, a command  *)
(* is not.                                                                  *)

\* the history restarts whenever the keyring is empty and nothing is running
Fresh(v, fl) == v = {} /\ \A c \in Callers : fl[c] = Idle

Observe(v, fl, failed, over) ==
    IF Orphan(v) /\ \A c \in Callers : fl[c] = Idle
    THEN (IF ~over THEN {"clear_failure"} ELSE {})
         \cup (IF ~failed THEN {"interleaving"} ELSE {})
    ELSE {}

Invoke(c) ==
    /\ inflight[c] = Idle
    /\ \E f \in Invocations :
          /\ inflight' = [inflight EXCEPT ![c] = f]
          /\ overlapped' = (overlapped \/ \E d \in Callers \ {c} : inflight[d] # Idle)
    /\ UNCHANGED <<vault, build, pre, last, calls, prev, stored, clearFailed,
                   orphanCauses>>

VaultCall(c) ==
    /\ inflight[c] # Idle
    /\ \E o \in VaultOutcomes :
          LET s == Step(inflight[c], vault, o)
              fl == [inflight EXCEPT ![c] = IF s.frame.pc = "done" THEN Idle
                                                                  ELSE s.frame]
              failed == clearFailed
                        \/ (inflight[c].op = "clear_auth_tokens" /\ Failure(s.event.res))
          IN /\ vault' = s.vault
             /\ inflight' = fl
             /\ clearFailed' = (failed /\ ~Fresh(s.vault, fl))
             /\ overlapped' = (overlapped /\ ~Fresh(s.vault, fl))
             /\ orphanCauses' = orphanCauses
                                \cup Observe(s.vault, fl, failed, overlapped)
    /\ UNCHANGED <<build, pre, last, calls, prev, stored>>

NextInterleaved == \E c \in Callers : Invoke(c) \/ VaultCall(c)

InitInterleaved == Init /\ build.tauri_api_url = None /\ build.debug_assertions

SpecInterleaved == InitInterleaved /\ [][NextInterleaved]_vars

----------------------------------------------------------------------------
(* Properties.  In Spec, after a command: pre is the keyring it started     *)
(* from, vault the keyring it left, last.result what it returned, calls the  *)
(* keyring calls it made.                                                    *)

AuthEntry == [service |-> SERVICE_NAME, account |-> AUTH_TOKEN]

RefreshEntry == [service |-> SERVICE_NAME, account |-> REFRESH_TOKEN]

\* the keyring call itself failed (NoEntry is an answer, not a failure)
PlatformFailed(e) == e.res \in VaultOutcomes \ {"Ok"}

NoPlatformFailure(trace) == \A i \in 1..Len(trace) : ~PlatformFailed(trace[i])

Made(trace, call, account) ==
    \E i \in 1..Len(trace) : trace[i].call = call /\ trace[i].account = account

\* the clear reached "auth_token" and its delete was not refused
AuthCleared(trace) ==
    /\ Len(trace) >= 2
    /\ trace[1].res = "Ok"
    /\ trace[2].call = "delete_credential"
    /\ trace[2].account = AUTH_TOKEN
    /\ ~PlatformFailed(trace[2])

IsErr(f) == f.result # <<>> /\ ~f.result[1].ok

ErrCode(f) == f.result[1].err[1].code

\* C1: after a store_auth_token(t, r) that returned Ok(true), with no store or
\* clear since, a get_auth_token whose Entry::new and get_password do not fail
\* returns Ok(Some(t)).
C1_RoundTrip ==
    (/\ last.op = "get_auth_token"
     /\ prev.frame.op = "store_auth_token"
     /\ prev.frame.result = <<Ok(TRUE)>>
     /\ NoPlatformFailure(calls))
    => last.result = <<Ok(Some(prev.frame.token))>>

\* the token fetched after a store of it with a different refresh token
C1_Witness ==
    /\ last.op = "get_auth_token"
    /\ prev.frame.op = "store_auth_token"
    /\ prev.frame.result = <<Ok(TRUE)>>
    /\ prev.frame.refresh \notin {None, Some(prev.frame.token)}
    /\ Held(pre, REFRESH_TOKEN) = {prev.frame.refresh[1]}
    /\ last.result = <<Ok(Some(prev.frame.token))>>

\* C2, as claimed: after a store, once the last store or clear is a clear, a
\* get_auth_token (whose own keyring calls do not fail) returns Ok(None),
\* whatever the clear's keyring calls answered.
C2_Original ==
    (/\ last.op = "get_auth_token"
     /\ prev.frame.op = "clear_auth_tokens"
     /\ stored
     /\ NoPlatformFailure(calls))
    => last.result = <<Ok(None)>>

\* C2, amended: the same, when the clear's Entry::new and delete_credential on
\* "auth_token" did not fail.
C2_AbsentAfterClear ==
    (/\ last.op = "get_auth_token"
     /\ prev.frame.op = "clear_auth_tokens"
     /\ stored
     /\ NoPlatformFailure(calls)
     /\ AuthCleared(prev.calls))
    => last.result = <<Ok(None)>>

\* the clear deleted a stored token (its delete_credential answered Ok)
C2_Witness ==
    /\ last.op = "get_auth_token"
    /\ prev.frame.op = "clear_auth_tokens"
    /\ stored
    /\ AuthCleared(prev.calls)
    /\ prev.calls[2].res = "Ok"
    /\ NoPlatformFailure(calls)
    /\ last.result = <<Ok(None)>>

\* C3: clear_auth_tokens returns Ok(true) whatever the keyring answers; it
\* always goes on to Entry::new on "refresh_token", and to delete_credential
\* there when that Entry::new succeeds; and when neither fails no refresh token
\* is left.
C3_ClearAlwaysOk ==
    last.op = "clear_auth_tokens" =>
        /\ last.result = <<Ok(TRUE)>>
        /\ Made(calls, "Entry::new", REFRESH_TOKEN)
        /\ \A i \in 1..Len(calls) :
              calls[i] = Event("Entry::new", REFRESH_TOKEN, "Ok")
              => /\ i < Len(calls)
                 /\ calls[i + 1].call = "delete_credential"
                 /\ calls[i + 1].account = REFRESH_TOKEN
        /\ (\A i \in 1..Len(calls) :
                calls[i].account = REFRESH_TOKEN => ~PlatformFailed(calls[i]))
           => Held(vault, REFRESH_TOKEN) = {}

\* Entry::new on "auth_token" failed, the token stays, the refresh token goes
C3_Witness ==
    /\ last.op = "clear_auth_tokens"
    /\ PlatformFailed(calls[1])
    /\ Held(pre, AUTH_TOKEN) # {}
    /\ Held(pre, REFRESH_TOKEN) # {}
    /\ Held(vault, AUTH_TOKEN) = Held(pre, AUTH_TOKEN)
    /\ Held(vault, REFRESH_TOKEN) = {}
    /\ last.result = <<Ok(TRUE)>>

\* C4, as claimed: with no credential under "auth_token" and Entry::new
\* succeeding, get_auth_token returns Ok(None).
C4_Original ==
    (/\ last.op = "get_auth_token"
     /\ Held(pre, AUTH_TOKEN) = {}
     /\ calls[1].res = "Ok")
    => last.result = <<Ok(None)>>

\* C4, amended: with no credential under "auth_token", and neither Entry::new
\* nor get_password failing, get_auth_token returns Ok(None).
C4_AbsenceIsNotAnError ==
    (/\ last.op = "get_auth_token"
     /\ Held(pre, AUTH_TOKEN) = {}
     /\ NoPlatformFailure(calls))
    => last.result = <<Ok(None)>>

\* a fetch on the fresh keyring, before any store
C4_Witness ==
    /\ last.op = "get_auth_token"
    /\ ~stored
    /\ pre = {}
    /\ NoPlatformFailure(calls)
    /\ last.result = <<Ok(None)>>

\* C5: when store_auth_token(t, Some(r)) has written t and the Entry::new or
\* the set_password for the refresh token then fails, it returns an AuthError,
\* "auth_token" holds t and "refresh_token" is as before the call.
C5_NoRollback ==
    (/\ last.op = "store_auth_token"
     /\ last.refresh # None
     /\ Len(calls) >= 3
     /\ calls[2] = Event("set_password", AUTH_TOKEN, "Ok")
     /\ PlatformFailed(calls[Len(calls)]))
    => /\ IsErr(last)
       /\ Held(vault, AUTH_TOKEN) = {last.token}
       /\ Matching(vault, RefreshEntry) = Matching(pre, RefreshEntry)

\* the refresh token's set_password failed over an earlier pair of tokens
C5_Witness ==
    /\ last.op = "store_auth_token"
    /\ Len(calls) = 4
    /\ PlatformFailed(calls[4])
    /\ Held(pre, AUTH_TOKEN) \notin {{}, {last.token}}
    /\ Held(pre, REFRESH_TOKEN) \notin {{}, {last.refresh[1]}}
    /\ Held(vault, AUTH_TOKEN) = {last.token}
    /\ Held(vault, REFRESH_TOKEN) = Held(pre, REFRESH_TOKEN)

\* the code lib.rs gives a failure of each keyring call
CodeOf(call) ==
    CASE call = "Entry::new" -> "KEYRING_ERROR"
      [] call = "set_password" -> "STORE_ERROR"
      [] call = "get_password" -> "RETRIEVE_ERROR"

\* the call did not give the command what it asked for
Refused(e) == e.res # "Ok" /\ ~(e.call = "get_password" /\ e.res = "NoEntry")

\* C6: store_auth_token and get_auth_token stop at the first keyring call that
\* fails and return its code: KEYRING_ERROR for Entry::new, STORE_ERROR for
\* set_password, RETRIEVE_ERROR for a get_password that fails otherwise than by
\* NoEntry; they return an error in no other case, the message carries the
\* keyring's error, store never returns RETRIEVE_ERROR nor get STORE_ERROR.
C6_ErrorTaxonomy ==
    last.op \in {"store_auth_token", "get_auth_token"} =>
        LET n == Len(calls) IN
        /\ n >= 1
        /\ \A i \in 1..(n - 1) : calls[i].res = "Ok"
        /\ IsErr(last) <=> Refused(calls[n])
        /\ IsErr(last) =>
              /\ ErrCode(last) = CodeOf(calls[n].call)
              /\ last.result[1].err[1].message[2] = calls[n].res
              /\ last.op = "store_auth_token"
                 => ErrCode(last) \in {"KEYRING_ERROR", "STORE_ERROR"}
              /\ last.op = "get_auth_token"
                 => ErrCode(last) \in {"KEYRING_ERROR", "RETRIEVE_ERROR"}

\* a fetch whose get_password failed over a stored token
C6_Witness ==
    /\ last.op = "get_auth_token"
    /\ Held(pre, AUTH_TOKEN) # {}
    /\ Len(calls) = 2
    /\ PlatformFailed(calls[2])
    /\ IsErr(last)
    /\ ErrCode(last) = "RETRIEVE_ERROR"

\* C7: every credential of the keyring is under SERVICE_NAME and one of the two
\* accounts, each account holds at most one value; get_auth_token and
\* get_server_info leave the keyring as it was, a store removes no account's
\* credential and a clear adds none.
C7_AtMostOneAndFrame ==
    /\ \A c \in vault : c.service = SERVICE_NAME /\ c.account \in Accounts
    /\ \A a \in Accounts : Cardinality(Matching(vault, [service |-> SERVICE_NAME,
                                                        account |-> a])) <= 1
    /\ last.op \in {"get_auth_token", "get_server_info"} => vault = pre
    /\ last.op = "store_auth_token"
       => \A a \in Accounts : Held(pre, a) # {} => Held(vault, a) # {}
    /\ last.op = "clear_auth_tokens" => vault \subseteq pre

\* a fetch that failed over both tokens and left them
C7_Witness ==
    /\ last.op = "get_auth_token"
    /\ IsErr(last)
    /\ ErrCode(last) = "RETRIEVE_ERROR"
    /\ Held(pre, AUTH_TOKEN) # {}
    /\ Held(pre, REFRESH_TOKEN) # {}
    /\ vault = pre

\* the keyrings store_auth_token(t, None) and store_auth_token(t, Some(r)) leave
\* from keyring v, for each t, r and the same answers of the keyring
StoredBothWays(v) ==
    {<<Run(Frame("store_auth_token", t, None, "new_auth"), v, oc, <<>>).vault,
       Run(Frame("store_auth_token", t, Some(r), "new_auth"), v, oc, <<>>).vault>> :
        t \in Strings, r \in Strings, oc \in [1..4 -> VaultOutcomes]}

\* C8: from any reachable keyring and for the same answers of the keyring,
\* store_auth_token(t, None) and store_auth_token(t, Some(r)) leave the same
\* credential under "auth_token", and a get_auth_token after either returns
\* the same; and a store_auth_token(t, Some(r)) that returned Ok(true) leaves
\* t under "auth_token" and r under "refresh_token".
C8_Independence ==
    /\ \A p \in StoredBothWays(vault) :
          /\ Matching(p[1], AuthEntry) = Matching(p[2], AuthEntry)
          /\ \A og \in [1..2 -> VaultOutcomes] :
                Run(Frame("get_auth_token", "", None, "new_auth"),
                    p[1], og, <<>>).frame.result
                = Run(Frame("get_auth_token", "", None, "new_auth"),
                      p[2], og, <<>>).frame.result
    /\ (/\ last.op = "store_auth_token"
        /\ last.refresh # None
        /\ last.result = <<Ok(TRUE)>>)
       => /\ Held(vault, AUTH_TOKEN) = {last.token}
          /\ Held(vault, REFRESH_TOKEN) = {last.refresh[1]}

\* a store of two different strings over two other credentials
C8_Witness ==
    /\ last.op = "store_auth_token"
    /\ last.refresh \notin {None, Some(last.token)}
    /\ last.result = <<Ok(TRUE)>>
    /\ Held(pre, AUTH_TOKEN) \notin {{}, {last.token}}
    /\ Held(pre, REFRESH_TOKEN) \notin {{}, {last.refresh[1]}}
    /\ Held(vault, AUTH_TOKEN) = {last.token}
    /\ Held(vault, REFRESH_TOKEN) = {last.refresh[1]}

\* C9: store_auth_token calls the keyring for "refresh_token" exactly when a
\* refresh token is supplied and the Entry::new and set_password for
\* "auth_token" succeeded; otherwise the "refresh_token" credential is as it
\* was before the call.
C9_RefreshUntouched ==
    last.op = "store_auth_token" =>
        LET touched == \E i \in 1..Len(calls) : calls[i].account = REFRESH_TOKEN
            reached == /\ last.refresh # None
                       /\ Len(calls) >= 2
                       /\ calls[1].res = "Ok"
                       /\ calls[2].res = "Ok"
        IN /\ touched <=> reached
           /\ ~reached => Matching(vault, RefreshEntry) = Matching(pre, RefreshEntry)

\* store_auth_token(t, None) over an earlier pair: the refresh token stays
C9_Witness ==
    /\ last.op = "store_auth_token"
    /\ last.refresh = None
    /\ last.result = <<Ok(TRUE)>>
    /\ Held(pre, AUTH_TOKEN) \notin {{}, {last.token}}
    /\ Held(pre, REFRESH_TOKEN) # {}
    /\ Held(vault, AUTH_TOKEN) = {last.token}
    /\ Held(vault, REFRESH_TOKEN) = Held(pre, REFRESH_TOKEN)

\* C10: started from the empty keyring, whenever no command is running, the
\* commands have run one at a time and no keyring call of a clear_auth_tokens
\* has failed, a "refresh_token" credential exists only if an "auth_token"
\* credential does.  (orphanCauses records that a failed call inside a clear,
\* and interleaved calls of two commands, each break it.)
C10_RefreshImpliesAuth ==
    (Quiescent /\ ~clearFailed /\ ~overlapped) => ~Orphan(vault)

\* both tokens held after commands run one at a time without a failed clear,
\* in a run that has seen the invariant broken by each of the two causes
C10_Witness ==
    /\ Quiescent
    /\ ~clearFailed
    /\ ~overlapped
    /\ Held(vault, AUTH_TOKEN) # {}
    /\ Held(vault, REFRESH_TOKEN) # {}
    /\ orphanCauses = {"clear_failure", "interleaving"}

====
